---- MODULE Spec2Model ----
(***************************************************************************)
(* Treasury-bill calculator (src/web_calculator.py): the acquisition,      *)
(* normalization, persistence and retrieval pipeline of the Streamlit      *)
(* script, as a state machine.                                             *)
(*                                                                         *)
(* One script run is: init_sqlite_db (line 247), the session data loading  *)
(* (lines 256-257), and, when the refresh button was clicked, the cached   *)
(* call of fetch_data_from_cbe and the button handler (lines 291-300).     *)
(* fetch_data_from_cbe is modelled statement group by statement group, so  *)
(* that every place where it can fail is a separate step.                  *)
(*                                                                         *)
(* Numbers read from the page are kept in thousandths (26.914 is 26914).   *)
(***************************************************************************)
EXTENDS Integers, Sequences, FiniteSets, TLC

VARIABLES
    now,          \* the wall clock, in seconds
    dbState,      \* the store file: "absent", "notable" (file without table), "ready"
    db,           \* the committed rows of table cbe_bids
    dbMtime,      \* modification time of the store file
    cache,        \* st.cache_data entry of fetch_data_from_cbe: <<>> or <<[at, value]>>
    session,      \* st.session_state: [loaded, df_data, last_update]
    sessions,     \* number of browser automation sessions that are open
    pc,           \* position of the script run
    click,        \* whether this script run was triggered by the refresh button
    driver,       \* local `driver` of fetch_data_from_cbe: "None" or "open"
    page,         \* history: what the fetched page held: [anchor, tenors, yields]
    tenors_list,  \* tenors_list (raw cells), the input of the normalizer on its own
    yields_list,  \* yields_list (raw cells), the input of the normalizer on its own
    final_df,     \* local final_df: rows [tenor, yield, date]
    idx,          \* number of rows of final_df already handed to cursor.execute
    conn,         \* the sqlite3 connection of the fetch: "none", "open" or "closed"
    pending,      \* the rows as the open connection's transaction sees them
    result,       \* what the call returned: [df, status, message, time]
    before,       \* history: store and session as they were when the refresh began
    fetches,      \* history: how many times a browser session fetched the page
    lastFetch,    \* history: <<>> or <<the time of the latest page fetch>>
    refetched,    \* history: a page fetch came less than CACHE_TTL after another
    sale,         \* the arguments of analyze_secondary_sale
    remaining_days,  \* local remaining_days of analyze_secondary_sale
    results,      \* the dict analyze_secondary_sale returned
    reader        \* a load_data of another session: [at, latest_date, df, idx]

vars == <<now, dbState, db, dbMtime, cache, session, sessions, pc, click, driver,
          page, tenors_list, yields_list, final_df, idx, conn, pending, result,
          before, fetches, lastFetch, refetched, sale, remaining_days, results,
          reader>>

(***************************************************************************)
(* Bounds of the model.                                                    *)
(***************************************************************************)
MaxTicks == 2       \* the clock stops after this many ticks
MaxFetches == 2     \* browser sessions started in one behaviour
MaxLen == 4         \* longest list handed to the normalizer on its own

(***************************************************************************)
(* Program constants.                                                      *)
(***************************************************************************)
CACHE_TTL == 43200          \* @st.cache_data(ttl=43200)
SECONDS_PER_DAY == 86400    \* strftime("%Y-%m-%d"): one date per calendar day
TICK == CACHE_TTL           \* one step of the modelled clock: half a day

(***************************************************************************)
(* The tables a modelled page can hold: the first table's first column     *)
(* (tenors) and the cells that follow the anchor phrase in its row         *)
(* (yields), as raw texts.                                                 *)
(***************************************************************************)
Pages ==
    { [tenors |-> <<"182", "364">>,         yields |-> <<"25.0", "27.1">>],
      [tenors |-> <<"364", "days", "182">>, yields |-> <<"25.0", "26.9", "27.1">>],
      [tenors |-> <<"182">>,                yields |-> <<"26.9">>],
      [tenors |-> <<"364", "364">>,         yields |-> <<"25.0", "27.1">>],
      [tenors |-> <<"days">>,               yields |-> <<"27.1">>],
      [tenors |-> <<"182", "inf">>,         yields |-> <<"25.0", "27.1">>],
      [tenors |-> <<"91", "182", "273", "364">>, yields |-> <<"26.9", "27.1", "26.5">>],
      [tenors |-> <<"182">>,                yields |-> <<"25.0", "27.1">>],
      [tenors |-> <<>>,                     yields |-> <<>>] }

SeqsUpTo(S, n) == UNION {[1..k -> S] : k \in 0..n}

(***************************************************************************)
(* pd.to_numeric(..., errors='coerce'), lines 124-125: a numeral becomes   *)
(* its value (here in thousandths), "inf" the float infinity, and any      *)
(* other text NaN.                                                         *)
(***************************************************************************)
Numerals ==
    [c \in {"91", "182", "273", "364", "25.0", "26.5", "26.9", "27.1", "24.3"} |->
        CASE c = "91"   -> 91000
          [] c = "182"  -> 182000
          [] c = "273"  -> 273000
          [] c = "364"  -> 364000
          [] c = "25.0" -> 25000
          [] c = "26.5" -> 26500
          [] c = "26.9" -> 26900
          [] c = "27.1" -> 27100
          [] c = "24.3" -> 24300]

ToNumeric(cell) ==
    IF cell \in DOMAIN Numerals THEN [k |-> "num", v |-> Numerals[cell]]
    ELSE IF cell = "inf" THEN [k |-> "inf", v |-> 0]
    ELSE [k |-> "nan", v |-> 0]

\* Lines 119-125: the two lists side by side, each column coerced to numbers.
InitialDf(tenors, yields) ==
    [i \in 1..Len(tenors) |->
        [tenor |-> ToNumeric(tenors[i]), yield |-> ToNumeric(yields[i])]]

\* Line 126: dropna drops a row when either column is NaN.
NotNa(r) == r.tenor.k # "nan" /\ r.yield.k # "nan"

DropNa(rows) == SelectSeq(rows, NotNa)

\* Line 127: astype(int) raises on a non-finite tenor and truncates otherwise.
AsTypeRaises(rows) == \E i \in 1..Len(rows) : rows[i].tenor.k = "inf"

AsTypeInt(rows) ==
    [i \in 1..Len(rows) |->
        [tenor |-> rows[i].tenor.v \div 1000, yield |-> rows[i].yield.v]]

HasTenor(rows, t) == \E i \in 1..Len(rows) : rows[i].tenor = t

\* .loc[tenor == t, yield].iloc[0]: the yield of the first row with tenor t.
FirstYield(rows, t) ==
    LET i == CHOOSE n \in 1..Len(rows) :
                 /\ rows[n].tenor = t
                 /\ \A m \in 1..(n - 1) : rows[m].tenor # t
    IN rows[i].yield

\* The rows without the correction.
NoCorrection(rows) == rows

\* Lines 129-136: the 182/364 mapping correction.
Correct182_364(rows) ==
    IF HasTenor(rows, 182) /\ HasTenor(rows, 364)
    THEN LET yield_for_182_incorrect == FirstYield(rows, 182)
             yield_for_364_incorrect == FirstYield(rows, 364)
         IN [i \in 1..Len(rows) |->
                IF rows[i].tenor = 182
                THEN [rows[i] EXCEPT !.yield = yield_for_364_incorrect]
                ELSE IF rows[i].tenor = 364
                THEN [rows[i] EXCEPT !.yield = yield_for_182_incorrect]
                ELSE rows[i]]
    ELSE rows

RemoveAt(s, i) == SubSeq(s, 1, i - 1) \o SubSeq(s, i + 1, Len(s))

\* Line 138: sort_values by tenor. The default sort is not stable, so rows of
\* equal tenor may come out in any order: the set of possible results.
RECURSIVE SortValues(_)
SortValues(rows) ==
    IF rows = <<>> THEN {<<>>}
    ELSE LET least == {i \in 1..Len(rows) :
                          \A j \in 1..Len(rows) : rows[i].tenor <= rows[j].tenor}
         IN UNION {{<<rows[i]>> \o rest : rest \in SortValues(RemoveAt(rows, i))} :
                      i \in least}

\* strftime("%Y-%m-%d") of a clock reading: the calendar day.
DateOf(t) == t \div SECONDS_PER_DAY

\* Line 140: every row is stamped with today's date.
Stamp(rows, d) ==
    [i \in 1..Len(rows) |->
        [date |-> d, tenor |-> rows[i].tenor, yield |-> rows[i].yield]]

\* Lines 119-140 on lists of equal length: the possible values of final_df.
Normalize(tenors, yields, d) ==
    {Stamp(s, d) :
        s \in SortValues(Correct182_364(AsTypeInt(DropNa(InitialDf(tenors, yields)))))}

NormalizeRaises(tenors, yields) == AsTypeRaises(DropNa(InitialDf(tenors, yields)))

(***************************************************************************)
(* The store: table cbe_bids of cbe_historical_data.db, its rows           *)
(* [date, tenor, yield] in the order of the primary-key index.             *)
(***************************************************************************)
Range(s) == {s[i] : i \in 1..Len(s)}

\* A key made of the date alone.
SameDate(r, q) == r.date = q.date

\* Lines 57-62: PRIMARY KEY (date, tenor).
SameKey(r, q) == r.date = q.date /\ r.tenor = q.tenor

KeyLess(r, q) == r.date < q.date \/ (r.date = q.date /\ r.tenor < q.tenor)

\* The rows that do not hold r's key.
Without(rows, r) == SelectSeq(rows, LAMBDA q : ~SameKey(q, r))

\* r put into the table, after the rows whose key is not greater than r's.
PlaceRow(rows, r) ==
    LET n == Cardinality({i \in 1..Len(rows) : ~KeyLess(r, rows[i])})
    IN SubSeq(rows, 1, n) \o <<r>> \o SubSeq(rows, n + 1, Len(rows))

\* A plain INSERT into a table without the key.
PlainInsert(rows, r) == PlaceRow(rows, r)

\* Lines 148-152 with the PRIMARY KEY of lines 57-62: INSERT OR REPLACE deletes
\* the row that holds the key, if any, and inserts the new row.
InsertOrReplace(rows, r) == PlaceRow(Without(rows, r), r)

\* Lines 147-154: the whole loop over a snapshot.
RECURSIVE Persist(_, _)
Persist(rows, snapshot) ==
    IF snapshot = <<>> THEN rows
    ELSE Persist(InsertOrReplace(rows, Head(snapshot)), Tail(snapshot))

\* Lines 34-37: the built-in snapshot (it has no date column).
INITIAL_DATA ==
    << [tenor |-> 91, yield |-> 26914], [tenor |-> 182, yield |-> 27151],
       [tenor |-> 273, yield |-> 26534], [tenor |-> 364, yield |-> 24994] >>

\* SELECT MIN(date) in the place of MAX.
MinDate(rows) ==
    CHOOSE d \in {r.date : r \in Range(rows)} : \A r \in Range(rows) : d <= r.date

\* Line 177: SELECT MAX(date); ISO dates order as the days they name.
MaxDate(rows) ==
    CHOOSE d \in {r.date : r \in Range(rows)} : \A r \in Range(rows) : r.date <= d

\* The query without its WHERE clause.
AllRows(rows, d) == rows

\* Lines 185-186: SELECT * WHERE date = ?.
RowsOfDate(rows, d) == SelectSeq(rows, LAMBDA r : r.date = d)

\* Lines 169-195: load_data; readFails is a failure of the reads of lines 175-190.
LoadData(state, rows, mtime, readFails) ==
    IF state = "absent"
    THEN [df |-> INITIAL_DATA, last_update |-> [kind |-> "missing", t |-> 0]]
    ELSE IF state = "notable" \/ readFails
    THEN [df |-> INITIAL_DATA, last_update |-> [kind |-> "error", t |-> 0]]
    ELSE IF rows = <<>>
    THEN [df |-> INITIAL_DATA, last_update |-> [kind |-> "empty", t |-> 0]]
    ELSE [df |-> RowsOfDate(rows, MaxDate(rows)),
          last_update |-> [kind |-> "mtime", t |-> mtime]]

(***************************************************************************)
(* Values of the locals before they are assigned.                          *)
(***************************************************************************)
NoSession == [loaded |-> FALSE, df_data |-> <<>>,
              last_update |-> [kind |-> "unset", t |-> 0]]
NoResult == [df |-> <<>>, status |-> "NONE", message |-> "", time |-> <<>>]
NoPage == [anchor |-> "unread", tenors |-> 0, yields |-> 0]
NoBefore == [db |-> <<>>, session |-> NoSession]
NoReader == [at |-> "none", latest_date |-> <<>>, df |-> <<>>, idx |-> 0]

\* Line 162: the tuple the except clause returns (None, 'ERROR', message, None).
ErrorResult(e) == [df |-> <<>>, status |-> "ERROR", message |-> e, time |-> <<>>]

\* Line 158: the tuple of a successful fetch.
SuccessResult(df, t) ==
    [df |-> df, status |-> "SUCCESS", message |-> "saved", time |-> <<DateOf(t)>>]

\* An exception that leaves fetch_data_from_cbe: no tuple is returned.
Raised(e) == [df |-> <<>>, status |-> "RAISED", message |-> e, time |-> <<>>]

\* @st.cache_data(ttl=43200), line 69: an entry is served while it is younger
\* than the ttl.
CacheValid(c, t) == c # <<>> /\ t < c[1].at + CACHE_TTL

(***************************************************************************)
(* The secondary-sale calculator, lines 216-241. Amounts are whole pounds  *)
(* and yields and rates whole percents; a quotient is rounded down.        *)
(***************************************************************************)
DAYS_IN_YEAR == 365         \* line 30

\* a * b / c rounded down, computed without leaving 32 bits.
MulDiv(a, b, c) == (a \div c) * b + ((a % c) * b) \div c

\* Lines 221 and 227: face_value / (1 + (yield / 100 * days / DAYS_IN_YEAR)).
Discounted(face_value, yield, days) ==
    MulDiv(face_value, 100 * DAYS_IN_YEAR, 100 * DAYS_IN_YEAR + yield * days)

Max(a, b) == IF a >= b THEN a ELSE b

\* A guard that lets a sale on the day of maturity through.
AfterMaturity(remaining) == remaining < 0

\* Line 224: no day is left to sell.
NoDaysLeft(remaining) == remaining <= 0

\* Lines 216-241: the value of local remaining_days and the dict returned.
analyze_secondary_sale(face_value, original_yield, original_tenor, holding_days, secondary_yield, tax_rate) ==
    LET original_purchase_price == Discounted(face_value, original_yield, original_tenor)
        remaining == original_tenor - holding_days
        sale_price == Discounted(face_value, secondary_yield, remaining)
        gross_profit == sale_price - original_purchase_price
        tax_amount == Max(0, (gross_profit * tax_rate) \div 100)
        net_profit == gross_profit - tax_amount
        annualized_yield ==
            IF holding_days > 0
            THEN (net_profit * DAYS_IN_YEAR * 100) \div (original_purchase_price * holding_days)
            ELSE 0
    IN [remaining_days |-> remaining,
        returned |->
            IF NoDaysLeft(remaining)
            THEN [error |-> "holding days must be less than the original tenor"]
            ELSE [error |-> "None",
                  sale_price |-> sale_price,
                  gross_profit |-> gross_profit,
                  tax_amount |-> tax_amount,
                  net_profit |-> net_profit,
                  annualized_yield |-> annualized_yield,
                  original_purchase_price |-> original_purchase_price]]

\* Lines 358-371: the values the form starts with.
DefaultSale ==
    [face_value |-> 100000, original_yield |-> 29, original_tenor |-> 91,
     holding_days |-> 60, secondary_yield |-> 30, tax_rate |-> 20]

\* Line 379 not yet run: there is no dict.
NoResults == [error |-> "unset"]

Init ==
    /\ now = 0
    /\ dbState = "absent"
    /\ db = <<>>
    /\ dbMtime = 0
    /\ cache = <<>>
    /\ session = NoSession
    /\ sessions = 0
    /\ pc = "idle"
    /\ click = FALSE
    /\ driver = "None"
    /\ page = NoPage
    /\ tenors_list = <<>>
    /\ yields_list = <<>>
    /\ final_df = <<>>
    /\ idx = 0
    /\ conn = "none"
    /\ pending = <<>>
    /\ result = NoResult
    /\ before = NoBefore
    /\ fetches = 0
    /\ lastFetch = <<>>
    /\ refetched = FALSE
    /\ sale = DefaultSale
    /\ remaining_days = 0
    /\ results = NoResults
    /\ reader = NoReader

storeVars == <<dbState, db, dbMtime>>
fetchLocals == <<driver, page, tenors_list, yields_list, final_df, idx, conn, pending>>
history == <<fetches, lastFetch, refetched>>
calcVars == <<sale, remaining_days, results>>

(***************************************************************************)
(* The environment.                                                        *)
(***************************************************************************)
\* Time passes between script runs.
Tick ==
    /\ pc = "idle"
    /\ now < MaxTicks * TICK
    /\ now' = now + TICK
    /\ UNCHANGED <<calcVars, reader,
                   storeVars, cache, session, sessions, pc, click,
                   fetchLocals, result, before, history>>

\* A new browser tab: st.session_state starts empty.
NewSession ==
    /\ pc = "idle"
    /\ session.loaded
    /\ session' = NoSession
    /\ UNCHANGED <<now, calcVars, reader,
                   storeVars, cache, sessions, pc, click, fetchLocals,
                   result, before, history>>

\* The store file is removed from outside (a redeploy on a fresh disk), between
\* two script runs or between init_sqlite_db and the data loading.
RemoveStoreFile ==
    /\ pc \in {"idle", "load"}
    /\ dbState # "absent"
    /\ dbState' = "absent"
    /\ db' = <<>>
    /\ UNCHANGED <<now, calcVars, reader,
                   dbMtime, cache, session, sessions, pc, click, fetchLocals,
                   result, before, history>>

(***************************************************************************)
(* One run of the script.                                                  *)
(***************************************************************************)
\* Streamlit runs the script; clicked says whether the refresh button did it.
\* A click that would fetch the page is modelled only while fetches remain.
RunScript ==
    /\ pc = "idle"
    /\ \E clicked \in BOOLEAN :
          /\ clicked => (fetches < MaxFetches \/ CacheValid(cache, now))
          /\ click' = clicked
    /\ pc' = "init"
    /\ UNCHANGED <<now, calcVars, reader,
                   storeVars, cache, session, sessions, fetchLocals,
                   result, before, history>>

\* Lines 52-65 and 247: create the file and the table when they are not there.
InitSqliteDb ==
    /\ pc = "init"
    /\ dbState' = "ready"
    /\ dbMtime' = IF dbState = "ready" THEN dbMtime ELSE now
    /\ pc' = "load"
    /\ UNCHANGED <<now, calcVars, reader,
                   db, cache, session, sessions, click, fetchLocals,
                   result, before, history>>

\* Lines 256-258: the session loads its data once.
DataLoading ==
    /\ pc = "load"
    /\ IF session.loaded
       THEN UNCHANGED session
       ELSE \E readFails \in BOOLEAN :
               LET got == LoadData(dbState, db, dbMtime, readFails)
               IN session' = [loaded |-> TRUE, df_data |-> got.df,
                              last_update |-> got.last_update]
    /\ pc' = IF click THEN "button" ELSE "idle"
    /\ click' = FALSE
    /\ UNCHANGED <<now, calcVars, reader,
                   storeVars, cache, sessions, fetchLocals, result, before,
                   history>>

\* Lines 291-293 with the decorator of line 69: a valid cache entry is returned
\* without running the function.
Button ==
    /\ pc = "button"
    /\ before' = [db |-> db, session |-> session]
    /\ IF CacheValid(cache, now)
       THEN /\ result' = cache[1].value
            /\ pc' = "handler"
       ELSE /\ result' = NoResult
            /\ pc' = "options"
    /\ UNCHANGED <<now, calcVars, reader,
                   storeVars, cache, session, sessions, click, fetchLocals,
                   history>>

(***************************************************************************)
(* fetch_data_from_cbe, lines 70-166.                                      *)
(***************************************************************************)
\* Lines 160-162: the except clause builds the error tuple; finally follows.
Except(e) ==
    /\ result' = ErrorResult(e)
    /\ pc' = "finally"

\* Lines 76-82, before the try statement: an exception here leaves the function.
FetchOptions ==
    /\ pc = "options"
    /\ \E ok \in BOOLEAN :
          IF ok
          THEN /\ pc' = "firefox"
               /\ UNCHANGED result
          ELSE /\ pc' = "end"
               /\ result' = Raised("options")
    /\ UNCHANGED <<now, calcVars, reader,
                   storeVars, cache, session, sessions, click, fetchLocals,
                   before, history>>

\* Line 84: the browser session starts, or webdriver.Firefox raises.
FetchFirefox ==
    /\ pc = "firefox"
    /\ \E ok \in BOOLEAN :
          IF ok
          THEN /\ driver' = "open"
               /\ sessions' = sessions + 1
               /\ pc' = "get"
               /\ UNCHANGED result
          ELSE /\ Except("webdriver")
               /\ UNCHANGED <<driver, sessions>>
    /\ UNCHANGED <<now, calcVars, reader,
                   storeVars, cache, session, click, page, tenors_list,
                   yields_list, final_df, idx, conn, pending, before, history>>

\* Lines 85-86: the page is requested.
FetchGet ==
    /\ pc = "get"
    /\ fetches' = fetches + 1
    /\ lastFetch' = <<now>>
    /\ refetched' = (refetched \/ (lastFetch # <<>> /\ now < lastFetch[1] + CACHE_TTL))
    /\ \E ok \in BOOLEAN :
          IF ok
          THEN /\ pc' = "wait"
               /\ UNCHANGED result
          ELSE Except("get")
    /\ UNCHANGED <<now, calcVars, reader,
                   storeVars, cache, session, sessions, click, fetchLocals,
                   before>>

\* A wait that does not look for the anchor phrase.
WaitIgnoresAnchor(a, inTime) == inTime

\* Lines 91-92: presence_of_element_located for the anchor phrase, within the
\* 45 seconds of the wait.
WaitSucceeds(a, inTime) == a # "absent" /\ inTime

\* Lines 88-92: the bounded wait for an element holding the anchor phrase. The
\* page holds the phrase nowhere ("absent"), only outside the first column of
\* every table ("text"), or in the first column of a table ("table").
FetchWait ==
    /\ pc = "wait"
    /\ \E a \in {"absent", "text", "table"}, inTime \in BOOLEAN :
          /\ page' = [page EXCEPT !.anchor = a]
          /\ IF WaitSucceeds(a, inTime)
             THEN /\ pc' = "parse"
                  /\ UNCHANGED result
             ELSE Except("timeout")
    /\ UNCHANGED <<now, calcVars, reader,
                   storeVars, cache, session, sessions, click, driver,
                   tenors_list, yields_list, final_df, idx, conn, pending, before,
                   history>>

\* A check that only catches missing yields.
CountShort(tenors, yields) == Len(tenors) > Len(yields)

\* Lines 116-117: the count check.
CountMismatch(tenors, yields) == Len(tenors) # Len(yields)

\* Lines 94-140: read_html, the first table's first column as tenors_list, the
\* row of the anchor phrase as yields_list, the count check and the
\* normalization. An empty tenors list stands for a page without a non-empty
\* table.
FetchExtract ==
    /\ pc = "parse"
    /\ \E p \in Pages : LET t == p.tenors  y == p.yields IN
          IF t = <<>>
          THEN /\ Except("no_table")
               /\ UNCHANGED <<page, final_df>>
          ELSE IF page.anchor # "table"
          THEN /\ Except("no_target")
               /\ UNCHANGED <<page, final_df>>
          ELSE /\ page' = [page EXCEPT !.tenors = Len(t), !.yields = Len(y)]
               /\ IF CountMismatch(t, y)
                  THEN /\ Except("mismatch")
                       /\ UNCHANGED final_df
                  ELSE IF NormalizeRaises(t, y)
                  THEN /\ Except("astype")
                       /\ UNCHANGED final_df
                  ELSE /\ final_df' \in Normalize(t, y, DateOf(now))
                       /\ pc' = "connect"
                       /\ UNCHANGED result
    /\ UNCHANGED <<now, calcVars, reader,
                   storeVars, cache, session, sessions, click, driver,
                   tenors_list, yields_list, idx, conn, pending, before, history>>

\* Lines 143-144: sqlite3.connect creates the file when it is not there.
FetchConnect ==
    /\ pc = "connect"
    /\ \E ok \in BOOLEAN :
          IF ok
          THEN /\ conn' = "open"
               /\ pending' = db
               /\ idx' = 0
               /\ dbState' = IF dbState = "absent" THEN "notable" ELSE dbState
               /\ dbMtime' = IF dbState = "absent" THEN now ELSE dbMtime
               /\ pc' = "insert"
               /\ UNCHANGED result
          ELSE /\ Except("connect")
               /\ UNCHANGED <<conn, pending, idx, dbState, dbMtime>>
    /\ UNCHANGED <<now, calcVars, reader,
                   db, cache, session, sessions, click, driver, page,
                   tenors_list, yields_list, final_df, before, history>>

\* The loop on a connection in autocommit mode: every row is stored at once.
FetchInsertAutocommit ==
    /\ pc = "insert"
    /\ idx < Len(final_df)
    /\ \E ok \in BOOLEAN :
          IF ok /\ dbState = "ready"
          THEN /\ pending' = InsertOrReplace(pending, final_df[idx + 1])
               /\ db' = InsertOrReplace(pending, final_df[idx + 1])
               /\ idx' = idx + 1
               /\ UNCHANGED <<pc, result>>
          ELSE /\ Except("insert")
               /\ UNCHANGED <<pending, idx, db>>
    /\ UNCHANGED <<now, calcVars, reader,
                   dbState, dbMtime, cache, session, sessions, click, driver,
                   page, tenors_list, yields_list, final_df, conn, before, history>>

\* Lines 147-152: one pass of the loop, inside the connection's transaction.
FetchInsert ==
    /\ pc = "insert"
    /\ idx < Len(final_df)
    /\ \E ok \in BOOLEAN :
          IF ok /\ dbState = "ready"
          THEN /\ pending' = InsertOrReplace(pending, final_df[idx + 1])
               /\ idx' = idx + 1
               /\ UNCHANGED <<pc, result>>
          ELSE /\ Except("insert")
               /\ UNCHANGED <<pending, idx>>
    /\ UNCHANGED <<now, calcVars, reader,
                   storeVars, cache, session, sessions, click, driver, page,
                   tenors_list, yields_list, final_df, conn, before, history>>

\* Line 154: commit makes the transaction's rows the store's rows.
FetchCommit ==
    /\ pc = "insert"
    /\ idx = Len(final_df)
    /\ \E ok \in BOOLEAN :
          IF ok
          THEN /\ db' = pending
               /\ dbMtime' = IF idx > 0 THEN now ELSE dbMtime
               /\ pc' = "close"
               /\ UNCHANGED result
          ELSE /\ Except("commit")
               /\ UNCHANGED <<db, dbMtime>>
    /\ UNCHANGED <<now, calcVars, reader,
                   dbState, cache, session, sessions, click, fetchLocals,
                   before, history>>

\* A log line that reads no row of the frame.
ReadsNoRow(df) == FALSE

\* Line 156: final_df[DATE_COLUMN_NAME].iloc[0] raises IndexError when the
\* frame has no row.
FirstRowMissing(df) == df = <<>>

\* Lines 155-158: close, the log line that reads final_df's first row, and the
\* return statement.
FetchReturn ==
    /\ pc = "close"
    /\ conn' = "closed"
    /\ pending' = <<>>
    /\ IF FirstRowMissing(final_df)
       THEN Except("index")
       ELSE /\ result' = SuccessResult(final_df, now)
            /\ pc' = "finally"
    /\ UNCHANGED <<now, calcVars, reader,
                   storeVars, cache, session, sessions, click, driver, page,
                   tenors_list, yields_list, final_df, idx, before, history>>

\* Lines 163-166 and the return to the caller: driver.quit() when a driver was
\* made; an exception of quit replaces the return. A connection left open by
\* an exception is released with the frame, which rolls its transaction back.
\* The decorator stores a returned tuple, never an exception.
FetchFinally ==
    /\ pc = "finally"
    /\ conn' = IF conn = "open" THEN "closed" ELSE conn
    /\ pending' = <<>>
    /\ reader' = NoReader
    /\ \E ok \in BOOLEAN :
          IF driver = "open" /\ ~ok
          THEN /\ result' = Raised("quit")
               /\ pc' = "end"
               /\ UNCHANGED <<sessions, cache>>
          ELSE /\ sessions' = IF driver = "open" THEN sessions - 1 ELSE sessions
               /\ cache' = <<[at |-> now, value |-> result]>>
               /\ pc' = "handler"
               /\ UNCHANGED result
    /\ UNCHANGED <<now, calcVars, storeVars, session, click, driver, page,
                   tenors_list, yields_list, final_df, idx, before, history>>

(***************************************************************************)
(* load_data of another browser session, lines 169-195, run while this     *)
(* session's fetch is writing. It reads through a connection of its own,   *)
(* in two queries: MAX(date), then the rows of that date.                  *)
(***************************************************************************)
\* A reader that sees the rows of a transaction still open elsewhere.
ReadUncommitted(committed, uncommitted) == uncommitted

\* Lines 175-186: a connection sees the rows committed by the others.
Visible(committed, uncommitted) == committed

\* The fetch is in its insert loop, has just committed, or has left the loop
\* by an exception with its transaction still open.
Writing == pc \in {"insert", "close"} \/ (pc = "finally" /\ conn = "open")

\* Lines 171-182: the file test and the first query.
ReaderMax ==
    /\ Writing
    /\ reader.at = "none"
    /\ \E readFails \in BOOLEAN :
          LET rows == Visible(db, pending)
          IN IF dbState # "ready" \/ readFails \/ rows = <<>>
             THEN reader' = [at |-> "done", latest_date |-> <<>>,
                             df |-> INITIAL_DATA, idx |-> idx]
             ELSE reader' = [at |-> "max", latest_date |-> <<MaxDate(rows)>>,
                             df |-> <<>>, idx |-> idx]
    /\ UNCHANGED <<now, calcVars, storeVars, cache, session, sessions, pc, click,
                   fetchLocals, result, before, history>>

\* Lines 185-195: the second query and the return.
ReaderSelect ==
    /\ Writing
    /\ reader.at = "max"
    /\ \E readFails \in BOOLEAN :
          reader' = IF readFails
                    THEN [at |-> "done", latest_date |-> <<>>,
                          df |-> INITIAL_DATA, idx |-> idx]
                    ELSE [reader EXCEPT
                             !.at = "done",
                             !.idx = idx,
                             !.df = RowsOfDate(Visible(db, pending),
                                               reader.latest_date[1])]
    /\ UNCHANGED <<now, calcVars, storeVars, cache, session, sessions, pc, click,
                   fetchLocals, result, before, history>>

\* Lines 294-300: the button handler.
Handler ==
    /\ pc = "handler"
    /\ IF result.status = "SUCCESS"
       THEN session' = [loaded |-> TRUE, df_data |-> result.df,
                        last_update |-> [kind |-> "refresh", t |-> now]]
       ELSE UNCHANGED session
    /\ pc' = "end"
    /\ UNCHANGED <<now, calcVars, reader,
                   storeVars, cache, sessions, click, fetchLocals, result,
                   before, history>>

\* The run ends: after a SUCCESS st.rerun() (line 298) runs the script again,
\* otherwise the script is over. The locals of the run are gone.
EndRun ==
    /\ pc = "end"
    /\ pc' = IF result.status = "SUCCESS" THEN "init" ELSE "idle"
    /\ click' = FALSE
    /\ driver' = "None"
    /\ page' = NoPage
    /\ tenors_list' = <<>>
    /\ yields_list' = <<>>
    /\ final_df' = <<>>
    /\ idx' = 0
    /\ conn' = "none"
    /\ pending' = <<>>
    /\ result' = NoResult
    /\ before' = NoBefore
    /\ reader' = NoReader
    /\ UNCHANGED <<now, calcVars, storeVars, cache, session, sessions, history>>

Next ==
    \/ Tick
    \/ NewSession
    \/ RemoveStoreFile
    \/ RunScript
    \/ InitSqliteDb
    \/ DataLoading
    \/ Button
    \/ FetchOptions
    \/ FetchFirefox
    \/ FetchGet
    \/ FetchWait
    \/ FetchExtract
    \/ FetchConnect
    \/ FetchInsert
    \/ FetchCommit
    \/ FetchReturn
    \/ FetchFinally
    \/ Handler
    \/ EndRun

Spec == Init /\ [][Next]_vars

(***************************************************************************)
(* The application with a second browser session that loads its data      *)
(* while the first one refreshes. New tabs of the first session play no    *)
(* part in what the second one reads and are left to Spec.                 *)
(***************************************************************************)
NextConcurrentLoad ==
    \/ Tick
    \/ RemoveStoreFile
    \/ RunScript
    \/ InitSqliteDb
    \/ DataLoading
    \/ Button
    \/ FetchOptions
    \/ FetchFirefox
    \/ FetchGet
    \/ FetchWait
    \/ FetchExtract
    \/ FetchConnect
    \/ FetchInsert
    \/ FetchCommit
    \/ FetchReturn
    \/ FetchFinally
    \/ ReaderMax
    \/ ReaderSelect
    \/ Handler
    \/ EndRun

SpecConcurrentLoad == Init /\ [][NextConcurrentLoad]_vars

TypeOK ==
    /\ pc \in {"idle", "init", "load", "button", "options", "firefox", "get", "wait",
               "parse", "connect", "insert", "close", "finally", "handler",
               "end"}
    /\ dbState \in {"absent", "notable", "ready"}
    /\ sessions \in 0..MaxFetches
    /\ fetches \in 0..MaxFetches

(***************************************************************************)
(* The normalizer on its own: lines 119-140 applied to two lists of equal  *)
(* length. The yields are distinct texts, one per position, with at most   *)
(* one position unparsable, so that every output yield names the input     *)
(* row it came from.                                                       *)
(***************************************************************************)
NormalizerTenorCells == {"91", "182", "273", "364", "days", "inf"}

YieldTexts == <<"26.9", "27.1", "26.5", "25.0", "24.3">>

YieldsFor(n, bad) ==
    [i \in 1..n |->
        IF i = bad THEN "n/a" ELSE YieldTexts[((i - 1) % Len(YieldTexts)) + 1]]

InitNormalize ==
    /\ now = 0
    /\ dbState = "absent"
    /\ db = <<>>
    /\ dbMtime = 0
    /\ cache = <<>>
    /\ session = NoSession
    /\ sessions = 0
    /\ pc = "normalize"
    /\ click = FALSE
    /\ driver = "None"
    /\ page = NoPage
    /\ tenors_list \in SeqsUpTo(NormalizerTenorCells, MaxLen)
    /\ yields_list \in {YieldsFor(Len(tenors_list), bad) : bad \in 0..Len(tenors_list)}
    /\ final_df = <<>>
    /\ idx = 0
    /\ conn = "none"
    /\ pending = <<>>
    /\ result = NoResult
    /\ before = NoBefore
    /\ fetches = 0
    /\ lastFetch = <<>>
    /\ refetched = FALSE
    /\ sale = DefaultSale
    /\ remaining_days = 0
    /\ results = NoResults
    /\ reader = NoReader

NormalizeCall ==
    /\ pc = "normalize"
    /\ IF NormalizeRaises(tenors_list, yields_list)
       THEN /\ pc' = "raised"
            /\ UNCHANGED final_df
       ELSE /\ final_df' \in Normalize(tenors_list, yields_list, DateOf(now))
            /\ pc' = "normalized"
    /\ UNCHANGED <<now, calcVars, reader,
                   storeVars, cache, session, sessions, click, driver, page,
                   tenors_list, yields_list, idx, conn, pending, result, before,
                   history>>

NextNormalize == NormalizeCall

SpecNormalize == InitNormalize /\ [][NextNormalize]_vars

(***************************************************************************)
(* The calculator on its own: analyze_secondary_sale applied to arguments  *)
(* the form can hand it (face value at least 1000, yields at least 1, tax  *)
(* rate 0 to 100, a tenor of the current data) and to holding days on both *)
(* sides of the tenor.                                                     *)
(***************************************************************************)
FaceValues == {1000, 100000}
YieldPercents == {1, 29, 30}
TaxRates == {0, 20, 100}
SaleTenors == {1, 91, 182, 273, 364}
HoldingDays == {0, 1, 60, 90, 91, 92, 181, 182, 183, 364, 365}

InitSecondary ==
    /\ now = 0
    /\ dbState = "absent"
    /\ db = <<>>
    /\ dbMtime = 0
    /\ cache = <<>>
    /\ session = NoSession
    /\ sessions = 0
    /\ pc = "analyze"
    /\ click = FALSE
    /\ driver = "None"
    /\ page = NoPage
    /\ tenors_list = <<>>
    /\ yields_list = <<>>
    /\ final_df = <<>>
    /\ idx = 0
    /\ conn = "none"
    /\ pending = <<>>
    /\ result = NoResult
    /\ before = NoBefore
    /\ fetches = 0
    /\ lastFetch = <<>>
    /\ refetched = FALSE
    /\ sale \in [face_value : FaceValues, original_yield : YieldPercents,
                 original_tenor : SaleTenors, holding_days : HoldingDays,
                 secondary_yield : YieldPercents, tax_rate : TaxRates]
    /\ remaining_days = 0
    /\ results = NoResults
    /\ reader = NoReader

\* Line 379: the call.
AnalyzeCall ==
    /\ pc = "analyze"
    /\ LET got == analyze_secondary_sale(sale.face_value, sale.original_yield,
                                         sale.original_tenor, sale.holding_days,
                                         sale.secondary_yield, sale.tax_rate)
       IN /\ remaining_days' = got.remaining_days
          /\ results' = got.returned
    /\ pc' = "analyzed"
    /\ UNCHANGED <<now, sale, reader, storeVars, cache, session, sessions, click,
                   fetchLocals, result, before, history>>

NextSecondary == AnalyzeCall

SpecSecondary == InitSecondary /\ [][NextSecondary]_vars

(***************************************************************************)
(* Properties.                                                             *)
(***************************************************************************)
DistinctTenors(rows) ==
    \A i, j \in 1..Len(rows) : rows[i].tenor = rows[j].tenor => i = j

\* The row of a snapshot that the store keeps for the tenor of row i: the last
\* row of that tenor.
LastOfTenor(rows, i) ==
    rows[CHOOSE j \in 1..Len(rows) :
            /\ rows[j].tenor = rows[i].tenor
            /\ \A k \in (j + 1)..Len(rows) : rows[k].tenor # rows[i].tenor]

\* C1: a refresh that returned a status other than SUCCESS (whatever step
\* failed, a database insert part-way through the loop included) left the
\* stored rows and the session's df_data and last_update as they were.
C1_FailedRefreshChangesNothing ==
    (pc = "end" /\ result.status = "ERROR")
        => (db = before.db /\ session = before.session)

C1_Witness ==
    /\ pc = "end"
    /\ result = ErrorResult("insert")
    /\ idx >= 1
    /\ before.db # <<>>
    /\ before.session.loaded

\* C2: the store never holds two rows of one (date, tenor) pair, and after a
\* fetch has committed, the one row of each pair the snapshot carries is the
\* snapshot's row.
C2_OneRowPerDateAndTenor ==
    /\ \A i, j \in 1..Len(db) :
          (db[i].date = db[j].date /\ db[i].tenor = db[j].tenor) => i = j
    /\ pc = "close" =>
          \A i \in 1..Len(final_df) :
             {q \in Range(db) : q.date = final_df[i].date /\ q.tenor = final_df[i].tenor}
                = {LastOfTenor(final_df, i)}

C2_Witness ==
    /\ pc = "close"
    /\ \E i \in 1..Len(final_df), q \in Range(before.db) :
          /\ q.date = final_df[i].date
          /\ q.tenor = final_df[i].tenor
          /\ q.yield # final_df[i].yield
          /\ final_df[i] \in Range(db)
          /\ q \notin Range(db)

\* What load_data returns from the store as it is now.
Loaded == LoadData(dbState, db, dbMtime, FALSE).df

\* A committed snapshot with distinct tenors whose date is the newest stored.
C3_Case ==
    /\ pc = "close"
    /\ final_df # <<>>
    /\ DistinctTenors(final_df)
    /\ MaxDate(db) = final_df[1].date

\* C3 as claimed: after a snapshot is persisted, load_data returns exactly the
\* snapshot's rows, with no extra row for its date (here in runs whose
\* fetches were all at least the cache's 12 hours apart).
C3_Original ==
    (C3_Case /\ ~refetched)
        => (Range(Loaded) = Range(final_df) /\ Len(Loaded) = Len(final_df))

\* C3, amended: after a snapshot is persisted, load_data returns every row of
\* the snapshot once and, besides them, exactly the rows stored earlier for
\* the same date whose tenor the snapshot does not carry.
C3_LoadAfterPersist ==
    C3_Case =>
        /\ Range(Loaded) =
              Range(final_df) \cup
              {q \in Range(before.db) :
                  /\ q.date = final_df[1].date
                  /\ \A i \in 1..Len(final_df) : final_df[i].tenor # q.tenor}
        /\ Len(Loaded) = Cardinality(Range(Loaded))

C3_Witness ==
    /\ C3_Case
    /\ \E q \in Range(before.db) :
          /\ q.date = final_df[1].date
          /\ \A i \in 1..Len(final_df) : final_df[i].tenor # q.tenor
          /\ q \in Range(Loaded)

\* C4: persisting a snapshot a second time changes nothing: the committed
\* store is what the loop makes of the store before, the loop run again on it
\* gives it back, and a snapshot whose rows the store already held leaves it
\* as it was.
C4_PersistTwiceIsPersistOnce ==
    pc = "close" =>
        /\ db = Persist(before.db, final_df)
        /\ Persist(db, final_df) = db
        /\ (\A i \in 1..Len(final_df) : final_df[i] \in Range(before.db))
              => db = before.db

C4_Witness ==
    /\ pc = "close"
    /\ final_df # <<>>
    /\ \A i \in 1..Len(final_df) : final_df[i] \in Range(before.db)

\* C5 as claimed: no page fetch comes less than the cache's 12 hours after
\* another one.
C5_Original == ~refetched

\* The rows that survive the parsing of the normalizer's input.
Surviving == AsTypeInt(DropNa(InitialDf(tenors_list, yields_list)))

YieldIn(rows, t) == rows[CHOOSE i \in 1..Len(rows) : rows[i].tenor = t].yield

\* The yield the claim gives tenor t in the output.
ClaimedYield(rows, t) ==
    IF HasTenor(rows, 182) /\ HasTenor(rows, 364) /\ t = 182 THEN YieldIn(rows, 364)
    ELSE IF HasTenor(rows, 182) /\ HasTenor(rows, 364) /\ t = 364 THEN YieldIn(rows, 182)
    ELSE YieldIn(rows, t)

\* C6: for surviving rows with distinct tenors the output holds one row per
\* surviving tenor; 182 and 364 carry each other's input yield when both are
\* there, and every other tenor carries its own. [91,182,273,364] with
\* [26.9,27.1,26.5,25.0] gives 91->26.9, 182->25.0, 273->26.5, 364->27.1.
C6_Swap182And364 ==
    (pc = "normalized" /\ DistinctTenors(Surviving)) =>
        /\ Len(final_df) = Len(Surviving)
        /\ \A i \in 1..Len(Surviving) :
              \E j \in 1..Len(final_df) :
                 /\ final_df[j].tenor = Surviving[i].tenor
                 /\ final_df[j].yield = ClaimedYield(Surviving, Surviving[i].tenor)
        /\ (/\ tenors_list = <<"91", "182", "273", "364">>
            /\ yields_list = <<"26.9", "27.1", "26.5", "25.0">>)
              => final_df = << [date |-> 0, tenor |-> 91, yield |-> 26900],
                               [date |-> 0, tenor |-> 182, yield |-> 25000],
                               [date |-> 0, tenor |-> 273, yield |-> 26500],
                               [date |-> 0, tenor |-> 364, yield |-> 27100] >>

C6_Witness ==
    /\ pc = "normalized"
    /\ tenors_list = <<"91", "182", "273", "364">>
    /\ yields_list = <<"26.9", "27.1", "26.5", "25.0">>
    /\ final_df[2].yield = 25000
    /\ final_df[4].yield = 27100

C9_Original == pc = "end" => result.status \in {"SUCCESS", "ERROR"}

\* C10: load_data returns the built-in snapshot exactly when the file is
\* absent, the table is empty or the read fails; otherwise it returns every
\* stored row of the newest date once, and no other row.
C10_LoadLatestOrFallback ==
    \A readFails \in BOOLEAN :
       LET got == LoadData(dbState, db, dbMtime, readFails).df
       IN IF dbState # "ready" \/ db = <<>> \/ readFails
          THEN got = INITIAL_DATA
          ELSE /\ got # INITIAL_DATA
               /\ Range(got) \subseteq Range(db)
               /\ \A r \in Range(db) :
                     Cardinality({j \in 1..Len(got) : got[j] = r})
                        = IF \A q \in Range(db) : q.date <= r.date THEN 1 ELSE 0

C10_Witness ==
    /\ pc = "idle"
    /\ session.loaded
    /\ session.last_update.kind = "mtime"
    /\ \E r, q \in Range(db) : r.date < q.date
    /\ session.df_data = LoadData(dbState, db, dbMtime, FALSE).df
    /\ \A r \in Range(session.df_data) : \A q \in Range(db) : q.date <= r.date

\* C11: analyze_secondary_sale returns a dict whose error is set whenever
\* holding_days >= original_tenor, and then the dict holds no sale price and
\* no profit figure; when holding_days < original_tenor the error is None and
\* remaining_days is original_tenor - holding_days, 122 for a tenor of 182
\* held 60 days.
C11_ErrorIffNoDaysLeft ==
    pc = "analyzed" =>
        IF sale.holding_days >= sale.original_tenor
        THEN /\ results.error \notin {"None", "unset"}
             /\ DOMAIN results = {"error"}
        ELSE /\ results.error = "None"
             /\ {"sale_price", "gross_profit", "net_profit"} \subseteq DOMAIN results
             /\ remaining_days = sale.original_tenor - sale.holding_days
             /\ (sale.original_tenor = 182 /\ sale.holding_days = 60)
                   => remaining_days = 122

C11_Witness ==
    /\ pc = "analyzed"
    /\ sale.holding_days = sale.original_tenor
    /\ sale.original_tenor = 182
    /\ DOMAIN results = {"error"}

\* C12: the snapshot held as current data is never empty: a loaded session's
\* df_data has rows, load_data returns rows whatever the store holds and
\* whether or not its reads fail, and no SUCCESS tuple, returned or cached,
\* carries a snapshot without rows, also when every extracted row failed to
\* parse.
C12_CurrentDataNonEmpty ==
    /\ session.loaded => session.df_data # <<>>
    /\ \A readFails \in BOOLEAN :
          LoadData(dbState, db, dbMtime, readFails).df # <<>>
    /\ result.status = "SUCCESS" => result.df # <<>>
    /\ (cache # <<>> /\ cache[1].value.status = "SUCCESS") => cache[1].value.df # <<>>

C12_Witness ==
    /\ pc = "end"
    /\ page.tenors >= 1
    /\ page.tenors = page.yields
    /\ final_df = <<>>
    /\ result = ErrorResult("index")
    /\ session.loaded
    /\ session.df_data # <<>>

\* A refresh that ended after every extracted pair was dropped: the lists
\* had the same positive length, no row was left, and the persistence ran.
C13_Case ==
    /\ pc = "end"
    /\ page.tenors >= 1
    /\ page.tenors = page.yields
    /\ final_df = <<>>
    /\ conn = "closed"

\* C13 as claimed: when every extracted pair is dropped because its tenor or
\* its yield is not a number, the attempt ends with status NO_DATA_FOUND and
\* the store is as it was (here for attempts whose commit did not fail and
\* that returned a tuple).
C13_Original ==
    (C13_Case /\ result.status # "RAISED" /\ result # ErrorResult("commit"))
        => (result.status = "NO_DATA_FOUND" /\ db = before.db)

\* C14 as claimed: once a refresh is over, however it ended, the browser
\* session it started has been released: outside fetch_data_from_cbe no
\* browser session is open.
C14_Original ==
    pc \in {"handler", "end", "idle", "init", "load", "button"} => sessions = 0

\* The rows a refresh writes that the store did not hold before it.
NewRows == Range(Persist(before.db, final_df)) \ Range(before.db)

\* C15: a load_data of another session that runs while a snapshot is being
\* inserted row by row, or after the insertion was committed or failed
\* part-way, returns none of the rows the write brings or all of them.
C15_ReadersSeeAllOrNothing ==
    (reader.at = "done" /\ pc \in {"insert", "close", "finally"}) =>
        \/ NewRows \cap Range(reader.df) = {}
        \/ NewRows \subseteq Range(reader.df)

C15_Witness ==
    /\ pc = "finally"
    /\ result = ErrorResult("insert")
    /\ reader.at = "done"
    /\ reader.idx >= 1
    /\ reader.idx < Len(final_df)
    /\ Cardinality(NewRows) >= 2
    /\ reader.df # INITIAL_DATA
    /\ NewRows \cap Range(reader.df) = {}

====
